---- MODULE Spec2Model ----
(***************************************************************************)
(* Model of promptflow/executor/batch_engine.py: BatchEngine.run and its   *)
(* helpers _get_input_dicts, _resolve_data, _resolve_dir, _resolve_image   *)
(* and _persist_outputs.  The collaborators the module imports             *)
(* (load_data, resolve_image_path, persist_multimedia_data,                *)
(* dump_list_to_jsonl, FlowExecutor) are modelled from their contracts.    *)
(***************************************************************************)
EXTENDS Integers, Sequences, FiniteSets, TLC

(* ------------------------------ bounds --------------------------------- *)
\* longest path (in segments) handed to _resolve_dir on its own
MaxSegs == 2
\* most fields of a record handed to _resolve_image on its own
MaxFields == 2
\* most successive run calls one caller makes
MaxRuns == 2

(* ------------------------------- paths --------------------------------- *)
\* A path value: kind "str" is a plain string as the caller typed it (it may
\* hold "." and empty segments), kind "Path" is a pathlib.Path, which keeps
\* neither.  NoPath fills the path slot of values that carry no path.
NoPath == [kind |-> "none", abs |-> FALSE, segs |-> <<>>]

StrPath(abs, segs) == [kind |-> "str", abs |-> abs, segs |-> segs]

MkPath(abs, segs) == [kind |-> "Path", abs |-> abs, segs |-> segs]

RECURSIVE Normalise(_)
\* pathlib drops empty and "." segments when it parses a string
Normalise(segs) ==
    IF segs = <<>> THEN <<>>
    ELSE IF Head(segs) \in {"", "."} THEN Normalise(Tail(segs))
         ELSE <<Head(segs)>> \o Normalise(Tail(segs))

\* Path(s)
PathOf(p) == IF p.kind = "Path" THEN p ELSE MkPath(p.abs, Normalise(p.segs))

\* str(p): the string form of a Path
StrOf(p) == StrPath(p.abs, p.segs)

\* a / b: an absolute right operand replaces the left one
Join(a, b) == IF b.abs THEN b ELSE MkPath(a.abs, a.segs \o b.segs)

\* _resolve_dir without the is_absolute test: the working directory is put
\* in front of absolute paths as well
_resolve_dir_always_joins(working_dir, dir) ==
    LET path == IF dir.kind = "Path" THEN dir ELSE PathOf(dir)
    IN  MkPath(working_dir.abs, working_dir.segs \o path.segs)

\* BatchEngine._resolve_dir; working_dir is flow_executor._working_dir
_resolve_dir(working_dir, dir) ==
    LET path == IF dir.kind = "Path" THEN dir ELSE PathOf(dir)
    IN  IF ~path.abs THEN Join(working_dir, path) ELSE path

OUTPUT_FILE_NAME == "output.jsonl"

(* ------------------------------ values --------------------------------- *)
\* A field value.  t is the runtime type the code dispatches on: "Scalar",
\* "Sequence" (list), "Mapping" (dict) or "Image" (an in-memory media blob,
\* found in outputs only).  A Mapping with media = TRUE is a media reference
\* whose path slot holds the pointed-to file.
Scalar(n) == [t |-> "Scalar", v |-> n, media |-> FALSE, path |-> NoPath, items |-> <<>>]

MediaRef(p) == [t |-> "Mapping", v |-> 0, media |-> TRUE, path |-> p, items |-> <<>>]

PlainMap(n) == [t |-> "Mapping", v |-> n, media |-> FALSE, path |-> NoPath, items |-> <<>>]

ListOf(items) == [t |-> "Sequence", v |-> 0, media |-> FALSE, path |-> NoPath, items |-> items]

Image(n) == [t |-> "Image", v |-> n, media |-> FALSE, path |-> NoPath, items |-> <<>>]

Field(name, val) == [name |-> name, val |-> val]

\* resolve_image_path(input_dir, value): a media reference gets its path
\* pointer joined onto input_dir; any other value comes back as it went in
resolve_image_path(input_dir, value) ==
    IF value.t = "Mapping" /\ value.media
    THEN [value EXCEPT !.path = StrOf(Join(input_dir, PathOf(value.path)))]
    ELSE value

\* the calls "for item in value: item = resolve_image_path(input_dir, item)"
\* makes, in order
ItemCalls(input_dir, items) == [i \in 1..Len(items) |-> <<input_dir, items[i]>>]

\* one iteration with the mapping branch resolving the result a second time
ResolveField_twice(input_dir, f) ==
    IF f.val.t = "Sequence"
    THEN [data  |-> Field(f.name, f.val),
          calls |-> ItemCalls(input_dir, f.val.items)]
    ELSE IF f.val.t = "Mapping"
    THEN [data  |-> Field(f.name,
                      resolve_image_path(input_dir, resolve_image_path(input_dir, f.val))),
          calls |-> <<<<input_dir, f.val>>,
                      <<input_dir, resolve_image_path(input_dir, f.val)>>>>]
    ELSE [data |-> f, calls |-> <<>>]

\* one iteration of "for key, value in one_line_data.items()": the list
\* branch rebinds the loop variable item and then stores value itself, the
\* dict branch stores the result of the call, anything else is skipped
ResolveField(input_dir, f) ==
    IF f.val.t = "Sequence"
    THEN [data  |-> Field(f.name, f.val),
          calls |-> ItemCalls(input_dir, f.val.items)]
    ELSE IF f.val.t = "Mapping"
    THEN [data  |-> Field(f.name, resolve_image_path(input_dir, f.val)),
          calls |-> <<<<input_dir, f.val>>>>]
    ELSE [data |-> f, calls |-> <<>>]

RECURSIVE ResolveImageLoop(_, _)
\* the loop of _resolve_image over the fields in dict order; data is the
\* record after the loop, calls the resolve_image_path calls it made
ResolveImageLoop(input_dir, fields) ==
    IF fields = <<>> THEN [data |-> <<>>, calls |-> <<>>]
    ELSE LET h == ResolveField(input_dir, Head(fields))
             r == ResolveImageLoop(input_dir, Tail(fields))
         IN  [data |-> <<h.data>> \o r.data, calls |-> h.calls \o r.calls]

\* BatchEngine._resolve_image: the record it leaves behind
_resolve_image(input_dir, one_line_data) == ResolveImageLoop(input_dir, one_line_data).data

(* ------------------------- the world outside --------------------------- *)
\* flow_executor._working_dir
W == MkPath(TRUE, <<"w">>)

DocsDir == MkPath(TRUE, <<"w", "docs">>)

ImagesDir == MkPath(TRUE, <<"w", "images">>)

ShortDir == MkPath(TRUE, <<"data", "short">>)

\* what the input directories hold; any other directory does not exist
DocsData ==
    << <<Field("text", Scalar(1))>>,
       <<Field("text", Scalar(2))>> >>

ImagesData ==
    << <<Field("pic", MediaRef(StrPath(FALSE, <<"p1.png">>))),
         Field("pics", ListOf(<<MediaRef(StrPath(FALSE, <<"q1.png">>)), Scalar(7)>>))>>,
       <<Field("pic", MediaRef(StrPath(TRUE, <<"abs", "p2.png">>))),
         Field("pics", ListOf(<<>>))>> >>

ShortData ==
    << <<Field("text", Scalar(3)),
         Field("pic", MediaRef(StrPath(FALSE, <<".", "p3.png">>))),
         Field("pics", ListOf(<<Scalar(8), MediaRef(StrPath(FALSE, <<"q3.png">>))>>))>> >>

\* load_data(input_dir): the records of the directory in on-disk order, or
\* a failure for a directory that cannot be loaded
load_data(input_dir) ==
    IF input_dir = DocsDir THEN [ok |-> TRUE, records |-> DocsData]
    ELSE IF input_dir = ImagesDir THEN [ok |-> TRUE, records |-> ImagesData]
    ELSE IF input_dir = ShortDir THEN [ok |-> TRUE, records |-> ShortData]
    ELSE [ok |-> FALSE, records |-> <<>>]

\* the body of the loop of _resolve_data for one loaded source: every line
\* goes through _resolve_image with the source's resolved directory
ResolvedLines(input_dir, file_data) ==
    [i \in 1..Len(file_data) |-> _resolve_image(input_dir, file_data[i])]

(* ---------------------------- input mapping ---------------------------- *)
HasKey(input_dicts, key) == \E i \in 1..Len(input_dicts) : input_dicts[i].key = key

RecordsOf(input_dicts, key) ==
    input_dicts[CHOOSE i \in 1..Len(input_dicts) : input_dicts[i].key = key].records

HasField(rec, name) == \E j \in 1..Len(rec) : rec[j].name = name

ValueOf(rec, name) == rec[CHOOSE j \in 1..Len(rec) : rec[j].name = name].val

\* whether validate_and_apply_inputs_mapping accepts: every referenced
\* source is loaded, every referenced field is in every record of its
\* source, and the referenced sources have one record count
MappingValid(input_dicts, inputs_mapping) ==
    /\ \A m \in 1..Len(inputs_mapping) : HasKey(input_dicts, inputs_mapping[m].src)
    /\ \A m \in 1..Len(inputs_mapping) :
          LET recs == RecordsOf(input_dicts, inputs_mapping[m].src)
          IN  \A i \in 1..Len(recs) : HasField(recs[i], inputs_mapping[m].field)
    /\ \A m, n \in 1..Len(inputs_mapping) :
          Len(RecordsOf(input_dicts, inputs_mapping[m].src))
            = Len(RecordsOf(input_dicts, inputs_mapping[n].src))

\* the merged records of validate_and_apply_inputs_mapping: record i takes
\* each target from record i of the source the mapping names
ApplyMapping(input_dicts, inputs_mapping) ==
    LET n == Len(RecordsOf(input_dicts, inputs_mapping[1].src))
    IN  [i \in 1..n |->
           [m \in 1..Len(inputs_mapping) |->
              Field(inputs_mapping[m].target,
                    ValueOf(RecordsOf(input_dicts, inputs_mapping[m].src)[i],
                            inputs_mapping[m].field))]]

(* --------------------------- bulk execution ---------------------------- *)
\* the output record the flow produces for one input record: the answer is
\* the question's scalar, and a flow that draws returns an image blob too
FlowOutput(rec, i, withImage) ==
    LET q == ValueOf(rec, "question")
    IN  <<Field("answer", Scalar(q.v))>>
          \o (IF withImage THEN <<Field("image", Image(i))>> ELSE <<>>)

RECURSIVE KeptOutputs(_, _, _, _)
\* exec_bulk's outputs: the lines in kept, in input order, lines i.. onward
KeptOutputs(input_dicts, kept, withImage, i) ==
    IF i > Len(input_dicts) THEN <<>>
    ELSE (IF i \in kept THEN <<FlowOutput(input_dicts[i], i, withImage)>> ELSE <<>>)
           \o KeptOutputs(input_dicts, kept, withImage, i + 1)

(* ----------------------------- persistence ----------------------------- *)
BlobName(n) == <<"blob1.png", "blob2.png", "blob3.png">>[n]

HasImage(rec) == \E j \in 1..Len(rec) : rec[j].val.t = "Image"

\* persist_multimedia_data(output, output_dir): the record with every blob
\* replaced by a reference to the file the blob was saved in
persist_multimedia_data(output, output_dir) ==
    [j \in 1..Len(output) |->
       IF output[j].val.t = "Image"
       THEN Field(output[j].name, MediaRef(StrPath(FALSE, <<BlobName(output[j].val.v)>>)))
       ELSE output[j]]

\* the files persist_multimedia_data creates under output_dir
BlobFiles(output) == {BlobName(output[j].val.v) : j \in {k \in 1..Len(output) : output[k].val.t = "Image"}}

\* json.dumps of one record: an object of key/value members in field order
JsonLine(rec) == [j \in 1..Len(rec) |-> <<rec[j].name, rec[j].val>>]

JsonLines(outputs) == [i \in 1..Len(outputs) |-> JsonLine(outputs[i])]

\* dump_list_to_jsonl(file, outputs): the content of the file afterwards,
\* old being its content before; the file is opened for writing
dump_list_to_jsonl(old, outputs) == JsonLines(outputs)

(* ------------------------------ arguments ------------------------------ *)
Callers == {1, 2}

Src(key, dir) == [key |-> key, dir |-> dir]

\* the input_dirs a caller passes, as (name, directory) items in dict order
InputDirChoices ==
    { <<Src("docs", StrPath(FALSE, <<"docs">>)), Src("images", MkPath(FALSE, <<"images">>))>>,
      <<Src("docs", StrPath(FALSE, <<"docs">>)), Src("images", StrPath(TRUE, <<"data", "short">>))>>,
      <<Src("docs", StrPath(TRUE, <<"w", ".", "docs">>)), Src("images", StrPath(FALSE, <<"nowhere">>))>>,
      <<Src("docs", MkPath(FALSE, <<"nowhere">>)), Src("images", StrPath(FALSE, <<"images">>))>>,
      <<Src("docs", MkPath(TRUE, <<"data", "short">>)), Src("images", StrPath(TRUE, <<"data", "", "short">>))>> }

Map(target, src, field) == [target |-> target, src |-> src, field |-> field]

\* the inputs_mapping a caller passes
MappingChoices ==
    { <<Map("question", "docs", "text"), Map("photo", "images", "pic")>>,
      <<Map("question", "docs", "text"), Map("photos", "images", "pics")>>,
      <<Map("question", "missing_source", "text")>> }

\* the output_dir a caller passes; the first two name one directory
OutArgs ==
    { StrPath(FALSE, <<"out">>), MkPath(TRUE, <<"w", "out">>), StrPath(FALSE, <<".", "out2">>) }

OutDirs == { _resolve_dir(W, a) : a \in OutArgs }

NoDir == [exists |-> FALSE, lines |-> <<>>, media |-> {}]

NoResult == [exists |-> FALSE, outputs |-> <<>>]

NoArgs == [input_dirs |-> <<>>, inputs_mapping |-> <<>>, output_dir |-> NoPath]

(* ------------------------------- state --------------------------------- *)
VARIABLES
    working_dir,    \* flow_executor._working_dir
    callers,        \* the threads that call run
    allowed,        \* the output_dir arguments each caller uses
    budget,         \* how many run calls each caller makes
    runs,           \* run calls each caller has started
    pc,             \* where each caller's current run call is
    args,           \* run's arguments
    nextSrc,        \* _resolve_data: index of the next item of input_dirs
    result,         \* _resolve_data: result, as (key, dir, records) items
    input_dicts,    \* run: input_dicts
    output_dir,     \* run: output_dir once resolved
    batch_result,   \* run: batch_result
    outputs,        \* _persist_outputs: the list being built
    error,          \* the error the call raised, "" when none
    fs,             \* output directory -> its output.jsonl and media files
    execCalls,      \* history: exec_bulk invocations of the current call
    replaced,       \* history: assignments to batch_result.outputs
    touched,        \* history: files the current call created or wrote
    written,        \* history: the lines the current call's dump wrote
    dirAtStart,     \* history: the target directory when the call started
    handed,         \* history: what the mapper and exec_bulk were given
    dirArg, dirOnce, dirTwice, dirStage,    \* _resolve_dir on its own
    recIn, recBase, recOut, recCalls, recStage  \* _resolve_image on its own

runVars == <<callers, allowed, budget, runs, pc, args, nextSrc, result, input_dicts,
             output_dir, batch_result, outputs, error, fs, execCalls, replaced,
             touched, written, dirAtStart, handed>>

dirVars == <<dirArg, dirOnce, dirTwice, dirStage>>

recVars == <<recIn, recBase, recOut, recCalls, recStage>>

vars == <<working_dir, runVars, dirVars, recVars>>

NoHanded == [mapper |-> <<>>, exec |-> <<>>, returned |-> <<>>]

RunInit ==
    /\ runs = [c \in Callers |-> 0]
    /\ pc = [c \in Callers |-> "idle"]
    /\ args = [c \in Callers |-> NoArgs]
    /\ nextSrc = [c \in Callers |-> 1]
    /\ result = [c \in Callers |-> <<>>]
    /\ input_dicts = [c \in Callers |-> <<>>]
    /\ output_dir = [c \in Callers |-> NoPath]
    /\ batch_result = [c \in Callers |-> NoResult]
    /\ outputs = [c \in Callers |-> <<>>]
    /\ error = [c \in Callers |-> ""]
    /\ fs = [d \in OutDirs |-> NoDir]
    /\ execCalls = [c \in Callers |-> 0]
    /\ replaced = [c \in Callers |-> 0]
    /\ touched = [c \in Callers |-> {}]
    /\ written = [c \in Callers |-> <<>>]
    /\ dirAtStart = [c \in Callers |-> NoDir]
    /\ handed = [c \in Callers |-> NoHanded]

DirIdle ==
    /\ dirArg = NoPath /\ dirOnce = NoPath /\ dirTwice = NoPath /\ dirStage = 0

RecIdle ==
    /\ recIn = <<>> /\ recBase = NoPath /\ recOut = <<>> /\ recCalls = <<>> /\ recStage = 0

\* one caller making up to MaxRuns successive run calls, any output_dir
Init ==
    /\ working_dir = W
    /\ callers = {1}
    /\ allowed = [c \in Callers |-> OutArgs]
    /\ budget = [c \in Callers |-> MaxRuns]
    /\ RunInit /\ DirIdle /\ RecIdle

\* two callers making one run call each, on disjoint output directories
InitConc ==
    /\ working_dir = W
    /\ callers = {1, 2}
    /\ allowed = [c \in Callers |->
                    IF c = 1 THEN {StrPath(FALSE, <<"out">>), MkPath(TRUE, <<"w", "out">>)}
                             ELSE {StrPath(FALSE, <<".", "out2">>)}]
    /\ budget = [c \in Callers |-> 1]
    /\ RunInit /\ DirIdle /\ RecIdle

(* ------------------------------ run calls ------------------------------ *)
Raise(c, kind) ==
    /\ error' = [error EXCEPT ![c] = kind]
    /\ pc' = [pc EXCEPT ![c] = "raised"]

OutputFile(dir) == <<dir, OUTPUT_FILE_NAME>>

\* a caller enters run(input_dirs, inputs_mapping, output_dir)
Run(c) ==
    /\ pc[c] \in {"idle", "returned", "raised"}
    /\ runs[c] < budget[c]
    /\ \E ins \in InputDirChoices, mapping \in MappingChoices, out \in allowed[c] :
          /\ args' = [args EXCEPT ![c] =
                        [input_dirs |-> ins, inputs_mapping |-> mapping, output_dir |-> out]]
          /\ dirAtStart' = [dirAtStart EXCEPT ![c] = fs[_resolve_dir(working_dir, out)]]
    /\ runs' = [runs EXCEPT ![c] = @ + 1]
    /\ pc' = [pc EXCEPT ![c] = "load"]
    /\ nextSrc' = [nextSrc EXCEPT ![c] = 1]
    /\ result' = [result EXCEPT ![c] = <<>>]
    /\ input_dicts' = [input_dicts EXCEPT ![c] = <<>>]
    /\ output_dir' = [output_dir EXCEPT ![c] = NoPath]
    /\ batch_result' = [batch_result EXCEPT ![c] = NoResult]
    /\ outputs' = [outputs EXCEPT ![c] = <<>>]
    /\ error' = [error EXCEPT ![c] = ""]
    /\ execCalls' = [execCalls EXCEPT ![c] = 0]
    /\ replaced' = [replaced EXCEPT ![c] = 0]
    /\ touched' = [touched EXCEPT ![c] = {}]
    /\ written' = [written EXCEPT ![c] = <<>>]
    /\ handed' = [handed EXCEPT ![c] = NoHanded]
    /\ UNCHANGED <<working_dir, callers, allowed, budget, fs, dirVars, recVars>>

\* _resolve_data, one iteration of "for input_key, input_dir in
\* input_dirs.items()" whose load_data succeeds
ResolveDataStep(c) ==
    /\ pc[c] = "load"
    /\ nextSrc[c] <= Len(args[c].input_dirs)
    /\ LET item == args[c].input_dirs[nextSrc[c]]
           input_dir == _resolve_dir(working_dir, item.dir)
           file_data == load_data(input_dir)
       IN  /\ file_data.ok
           /\ result' = [result EXCEPT ![c] = Append(@,
                  [key |-> item.key, dir |-> input_dir,
                   records |-> ResolvedLines(input_dir, file_data.records)])]
    /\ nextSrc' = [nextSrc EXCEPT ![c] = @ + 1]
    /\ UNCHANGED <<working_dir, callers, allowed, budget, runs, pc, args, input_dicts,
                   output_dir, batch_result, outputs, error, fs, execCalls, replaced,
                   touched, written, dirAtStart, handed, dirVars, recVars>>

\* ResolveDataFail with the failure swallowed: the source is left out of
\* result and the loop goes on
ResolveDataFail_skips(c) ==
    /\ pc[c] = "load"
    /\ nextSrc[c] <= Len(args[c].input_dirs)
    /\ ~load_data(_resolve_dir(working_dir, args[c].input_dirs[nextSrc[c]].dir)).ok
    /\ nextSrc' = [nextSrc EXCEPT ![c] = @ + 1]
    /\ UNCHANGED <<working_dir, callers, allowed, budget, runs, pc, args, result,
                   input_dicts, output_dir, batch_result, outputs, error, fs, execCalls,
                   replaced, touched, written, dirAtStart, handed, dirVars, recVars>>

\* _resolve_data, an iteration whose load_data raises
ResolveDataFail(c) ==
    /\ pc[c] = "load"
    /\ nextSrc[c] <= Len(args[c].input_dirs)
    /\ ~load_data(_resolve_dir(working_dir, args[c].input_dirs[nextSrc[c]].dir)).ok
    /\ Raise(c, "DataSource")
    /\ UNCHANGED <<working_dir, callers, allowed, budget, runs, args, nextSrc, result,
                   input_dicts, output_dir, batch_result, outputs, fs, execCalls,
                   replaced, touched, written, dirAtStart, handed, dirVars, recVars>>

\* _get_input_dicts: _resolve_data has returned and
\* validate_and_apply_inputs_mapping returns the merged records
GetInputDicts(c) ==
    /\ pc[c] = "load"
    /\ nextSrc[c] > Len(args[c].input_dirs)
    /\ MappingValid(result[c], args[c].inputs_mapping)
    /\ input_dicts' = [input_dicts EXCEPT ![c] = ApplyMapping(result[c], args[c].inputs_mapping)]
    /\ handed' = [handed EXCEPT ![c].mapper = result[c]]
    /\ pc' = [pc EXCEPT ![c] = "resolve_out"]
    /\ UNCHANGED <<working_dir, callers, allowed, budget, runs, args, nextSrc, result,
                   output_dir, batch_result, outputs, error, fs, execCalls, replaced,
                   touched, written, dirAtStart, dirVars, recVars>>

\* _get_input_dicts: validate_and_apply_inputs_mapping raises
GetInputDictsFail(c) ==
    /\ pc[c] = "load"
    /\ nextSrc[c] > Len(args[c].input_dirs)
    /\ ~MappingValid(result[c], args[c].inputs_mapping)
    /\ handed' = [handed EXCEPT ![c].mapper = result[c]]
    /\ Raise(c, "Mapping")
    /\ UNCHANGED <<working_dir, callers, allowed, budget, runs, args, nextSrc, result,
                   input_dicts, output_dir, batch_result, outputs, fs, execCalls,
                   replaced, touched, written, dirAtStart, dirVars, recVars>>

\* run: output_dir = self._resolve_dir(output_dir)
ResolveOutputDir(c) ==
    /\ pc[c] = "resolve_out"
    /\ output_dir' = [output_dir EXCEPT ![c] = _resolve_dir(working_dir, args[c].output_dir)]
    /\ pc' = [pc EXCEPT ![c] = "exec"]
    /\ UNCHANGED <<working_dir, callers, allowed, budget, runs, args, nextSrc, result,
                   input_dicts, batch_result, outputs, error, fs, execCalls, replaced,
                   touched, written, dirAtStart, handed, dirVars, recVars>>

\* run: exec_bulk returns a result holding the outputs of the lines that
\* did not fail, in input order
ExecBulk(c) ==
    /\ pc[c] = "exec"
    /\ \E kept \in SUBSET (1..Len(input_dicts[c])), withImage \in BOOLEAN :
          LET outs == KeptOutputs(input_dicts[c], kept, withImage, 1)
          IN  /\ batch_result' = [batch_result EXCEPT ![c] = [exists |-> TRUE, outputs |-> outs]]
              /\ handed' = [handed EXCEPT ![c].exec = input_dicts[c], ![c].returned = outs]
    /\ execCalls' = [execCalls EXCEPT ![c] = @ + 1]
    /\ outputs' = [outputs EXCEPT ![c] = <<>>]
    /\ pc' = [pc EXCEPT ![c] = "persist"]
    /\ UNCHANGED <<working_dir, callers, allowed, budget, runs, args, nextSrc, result,
                   input_dicts, output_dir, error, fs, replaced, touched, written,
                   dirAtStart, dirVars, recVars>>

\* run: exec_bulk raises
ExecBulkRaise(c) ==
    /\ pc[c] = "exec"
    /\ execCalls' = [execCalls EXCEPT ![c] = @ + 1]
    /\ handed' = [handed EXCEPT ![c].exec = input_dicts[c]]
    /\ Raise(c, "Execution")
    /\ UNCHANGED <<working_dir, callers, allowed, budget, runs, args, nextSrc, result,
                   input_dicts, output_dir, batch_result, outputs, fs, replaced, touched,
                   written, dirAtStart, dirVars, recVars>>

\* PersistOutput with the list kept on the engine, so that every caller's
\* list receives the element
PersistOutput_shared_list(c) ==
    /\ pc[c] = "persist"
    /\ Len(outputs[c]) < Len(batch_result[c].outputs)
    /\ LET output == batch_result[c].outputs[Len(outputs[c]) + 1]
           dir == output_dir[c]
       IN  /\ outputs' = [d \in Callers |->
                            IF d \in callers
                            THEN Append(outputs[d], persist_multimedia_data(output, dir))
                            ELSE outputs[d]]
           /\ fs' = [fs EXCEPT ![dir].media = @ \cup BlobFiles(output)]
           /\ touched' = [touched EXCEPT ![c] = @ \cup {<<dir, n>> : n \in BlobFiles(output)}]
    /\ UNCHANGED <<working_dir, callers, allowed, budget, runs, pc, args, nextSrc, result,
                   input_dicts, output_dir, batch_result, error, execCalls, replaced,
                   written, dirAtStart, handed, dirVars, recVars>>

\* PersistOutput building the list back to front
PersistOutput_prepends(c) ==
    /\ pc[c] = "persist"
    /\ Len(outputs[c]) < Len(batch_result[c].outputs)
    /\ LET output == batch_result[c].outputs[Len(outputs[c]) + 1]
           dir == output_dir[c]
       IN  /\ outputs' = [outputs EXCEPT ![c] = <<persist_multimedia_data(output, dir)>> \o @]
           /\ fs' = [fs EXCEPT ![dir].media = @ \cup BlobFiles(output)]
           /\ touched' = [touched EXCEPT ![c] = @ \cup {<<dir, n>> : n \in BlobFiles(output)}]
    /\ UNCHANGED <<working_dir, callers, allowed, budget, runs, pc, args, nextSrc, result,
                   input_dicts, output_dir, batch_result, error, execCalls, replaced,
                   written, dirAtStart, handed, dirVars, recVars>>

\* PersistOutput rewriting batch_result.outputs element by element as it goes
PersistOutput_in_place(c) ==
    /\ pc[c] = "persist"
    /\ Len(outputs[c]) < Len(batch_result[c].outputs)
    /\ LET i == Len(outputs[c]) + 1
           output == batch_result[c].outputs[i]
           dir == output_dir[c]
       IN  /\ outputs' = [outputs EXCEPT ![c] = Append(@, persist_multimedia_data(output, dir))]
           /\ batch_result' = [batch_result EXCEPT
                                 ![c].outputs[i] = persist_multimedia_data(output, dir)]
           /\ fs' = [fs EXCEPT ![dir].media = @ \cup BlobFiles(output)]
           /\ touched' = [touched EXCEPT ![c] = @ \cup {<<dir, n>> : n \in BlobFiles(output)}]
    /\ UNCHANGED <<working_dir, callers, allowed, budget, runs, pc, args, nextSrc, result,
                   input_dicts, output_dir, error, execCalls, replaced,
                   written, dirAtStart, handed, dirVars, recVars>>

\* _persist_outputs: one element of the list comprehension over outputs
PersistOutput(c) ==
    /\ pc[c] = "persist"
    /\ Len(outputs[c]) < Len(batch_result[c].outputs)
    /\ LET output == batch_result[c].outputs[Len(outputs[c]) + 1]
           dir == output_dir[c]
       IN  /\ outputs' = [outputs EXCEPT ![c] = Append(@, persist_multimedia_data(output, dir))]
           /\ fs' = [fs EXCEPT ![dir].media = @ \cup BlobFiles(output)]
           /\ touched' = [touched EXCEPT ![c] = @ \cup {<<dir, n>> : n \in BlobFiles(output)}]
    /\ UNCHANGED <<working_dir, callers, allowed, budget, runs, pc, args, nextSrc, result,
                   input_dicts, output_dir, batch_result, error, execCalls, replaced,
                   written, dirAtStart, handed, dirVars, recVars>>

\* _persist_outputs: persist_multimedia_data cannot save a blob and raises
PersistOutputFail(c) ==
    /\ pc[c] = "persist"
    /\ Len(outputs[c]) < Len(batch_result[c].outputs)
    /\ HasImage(batch_result[c].outputs[Len(outputs[c]) + 1])
    /\ Raise(c, "Persistence")
    /\ UNCHANGED <<working_dir, callers, allowed, budget, runs, args, nextSrc, result,
                   input_dicts, output_dir, batch_result, outputs, fs, execCalls,
                   replaced, touched, written, dirAtStart, handed, dirVars, recVars>>

\* DumpOutputs adding its lines after the ones the file already holds
DumpOutputs_appends(c) ==
    /\ pc[c] = "persist"
    /\ Len(outputs[c]) = Len(batch_result[c].outputs)
    /\ LET dir == output_dir[c]
       IN  /\ fs' = [fs EXCEPT ![dir].exists = TRUE,
                               ![dir].lines = @ \o JsonLines(outputs[c])]
           /\ touched' = [touched EXCEPT ![c] = @ \cup {OutputFile(dir)}]
    /\ written' = [written EXCEPT ![c] = JsonLines(outputs[c])]
    /\ pc' = [pc EXCEPT ![c] = "assign"]
    /\ UNCHANGED <<working_dir, callers, allowed, budget, runs, args, nextSrc, result,
                   input_dicts, output_dir, batch_result, outputs, error, execCalls,
                   replaced, dirAtStart, handed, dirVars, recVars>>

\* DumpOutputs writing one line per input record: an error marker stands
\* in for each line exec_bulk returned no output for
DumpOutputs_pads(c) ==
    /\ pc[c] = "persist"
    /\ Len(outputs[c]) = Len(batch_result[c].outputs)
    /\ LET dir == output_dir[c]
           pad == [i \in 1..(Len(input_dicts[c]) - Len(outputs[c])) |->
                     JsonLine(<<Field("error", Scalar(0))>>)]
       IN  /\ fs' = [fs EXCEPT ![dir].exists = TRUE,
                               ![dir].lines = dump_list_to_jsonl(@, outputs[c]) \o pad]
           /\ touched' = [touched EXCEPT ![c] = @ \cup {OutputFile(dir)}]
    /\ written' = [written EXCEPT ![c] = JsonLines(outputs[c])]
    /\ pc' = [pc EXCEPT ![c] = "assign"]
    /\ UNCHANGED <<working_dir, callers, allowed, budget, runs, args, nextSrc, result,
                   input_dicts, output_dir, batch_result, outputs, error, execCalls,
                   replaced, dirAtStart, handed, dirVars, recVars>>

\* _persist_outputs: dump_list_to_jsonl(output_dir / OUTPUT_FILE_NAME, outputs)
DumpOutputs(c) ==
    /\ pc[c] = "persist"
    /\ Len(outputs[c]) = Len(batch_result[c].outputs)
    /\ LET dir == output_dir[c]
       IN  /\ fs' = [fs EXCEPT ![dir].exists = TRUE,
                               ![dir].lines = dump_list_to_jsonl(@, outputs[c])]
           /\ touched' = [touched EXCEPT ![c] = @ \cup {OutputFile(dir)}]
    /\ written' = [written EXCEPT ![c] = JsonLines(outputs[c])]
    /\ pc' = [pc EXCEPT ![c] = "assign"]
    /\ UNCHANGED <<working_dir, callers, allowed, budget, runs, args, nextSrc, result,
                   input_dicts, output_dir, batch_result, outputs, error, execCalls,
                   replaced, dirAtStart, handed, dirVars, recVars>>

\* _persist_outputs: dump_list_to_jsonl raises, either before the file is
\* opened or after it was truncated and only the first k lines got written
DumpOutputsFail(c) ==
    /\ pc[c] = "persist"
    /\ Len(outputs[c]) = Len(batch_result[c].outputs)
    /\ LET dir == output_dir[c]
       IN  \/ UNCHANGED <<fs, touched>>
           \/ \E k \in 0..Len(outputs[c]) :
                 /\ k < Len(outputs[c]) \/ k = 0
                 /\ fs' = [fs EXCEPT ![dir].exists = TRUE,
                                     ![dir].lines = SubSeq(JsonLines(outputs[c]), 1, k)]
                 /\ touched' = [touched EXCEPT ![c] = @ \cup {OutputFile(dir)}]
    /\ Raise(c, "Persistence")
    /\ UNCHANGED <<working_dir, callers, allowed, budget, runs, args, nextSrc, result,
                   input_dicts, output_dir, batch_result, outputs, execCalls, replaced,
                   written, dirAtStart, handed, dirVars, recVars>>

\* AssignAndReturn without the assignment: the result keeps exec_bulk's
\* raw outputs
AssignAndReturn_keeps_raw(c) ==
    /\ pc[c] = "assign"
    /\ replaced' = [replaced EXCEPT ![c] = @ + 1]
    /\ pc' = [pc EXCEPT ![c] = "returned"]
    /\ UNCHANGED <<working_dir, callers, allowed, budget, runs, args, nextSrc, result,
                   input_dicts, output_dir, batch_result, outputs, error, fs, execCalls,
                   touched, written, dirAtStart, handed, dirVars, recVars>>

\* run: batch_result.outputs = <what _persist_outputs returned>; return
AssignAndReturn(c) ==
    /\ pc[c] = "assign"
    /\ batch_result' = [batch_result EXCEPT ![c].outputs = outputs[c]]
    /\ replaced' = [replaced EXCEPT ![c] = @ + 1]
    /\ pc' = [pc EXCEPT ![c] = "returned"]
    /\ UNCHANGED <<working_dir, callers, allowed, budget, runs, args, nextSrc, result,
                   input_dicts, output_dir, outputs, error, fs, execCalls, touched,
                   written, dirAtStart, handed, dirVars, recVars>>

Next ==
    \/ \E c \in callers : Run(c)
    \/ \E c \in callers : ResolveDataStep(c)
    \/ \E c \in callers : ResolveDataFail(c)
    \/ \E c \in callers : GetInputDicts(c)
    \/ \E c \in callers : GetInputDictsFail(c)
    \/ \E c \in callers : ResolveOutputDir(c)
    \/ \E c \in callers : ExecBulk(c)
    \/ \E c \in callers : ExecBulkRaise(c)
    \/ \E c \in callers : PersistOutput(c)
    \/ \E c \in callers : PersistOutputFail(c)
    \/ \E c \in callers : DumpOutputs(c)
    \/ \E c \in callers : DumpOutputsFail(c)
    \/ \E c \in callers : AssignAndReturn(c)

Spec == Init /\ [][Next]_vars

SpecConc == InitConc /\ [][Next]_vars

(* ------------------------ _resolve_dir on its own ---------------------- *)
SeqsUpTo(S, n) == UNION { [1..k -> S] : k \in 0..n }

\* working-directory roots: absolute directories
Roots == { W, MkPath(TRUE, <<>>), MkPath(TRUE, <<"srv", "flow">>) }

\* the dir arguments: strings as typed and Path objects, relative and absolute
DirInputs ==
    { StrPath(a, s) : a \in BOOLEAN, s \in SeqsUpTo({"a", "..", ".", ""}, MaxSegs) }
      \cup { MkPath(a, s) : a \in BOOLEAN, s \in SeqsUpTo({"a", ".."}, MaxSegs) }

InitDir ==
    /\ working_dir \in Roots
    /\ callers = {}
    /\ allowed = [c \in Callers |-> {}]
    /\ budget = [c \in Callers |-> 0]
    /\ RunInit /\ RecIdle
    /\ dirArg \in DirInputs
    /\ dirOnce = NoPath /\ dirTwice = NoPath /\ dirStage = 0

\* p1 = _resolve_dir(p)
ResolveDirOnce ==
    /\ dirStage = 0
    /\ dirOnce' = _resolve_dir(working_dir, dirArg)
    /\ dirStage' = 1
    /\ UNCHANGED <<working_dir, runVars, recVars, dirArg, dirTwice>>

\* p2 = _resolve_dir(p1)
ResolveDirTwice ==
    /\ dirStage = 1
    /\ dirTwice' = _resolve_dir(working_dir, dirOnce)
    /\ dirStage' = 2
    /\ UNCHANGED <<working_dir, runVars, recVars, dirArg, dirOnce>>

NextDir == ResolveDirOnce \/ ResolveDirTwice

SpecDir == InitDir /\ [][NextDir]_vars

(* ----------------------- _resolve_image on its own --------------------- *)
FieldNames == <<"f1", "f2", "f3", "f4">>

\* the values a loaded field can hold
ValueChoices ==
    { Scalar(1), PlainMap(1),
      MediaRef(StrPath(FALSE, <<"m.png">>)), MediaRef(StrPath(TRUE, <<"abs", "m.png">>)),
      ListOf(<<>>),
      ListOf(<<MediaRef(StrPath(FALSE, <<"n.png">>)), Scalar(2)>>),
      ListOf(<<PlainMap(2), MediaRef(StrPath(TRUE, <<"abs", "n.png">>))>>) }

\* records of up to MaxFields fields with distinct names
RecordInputs ==
    { [j \in 1..Len(vs) |-> Field(FieldNames[j], vs[j])] : vs \in SeqsUpTo(ValueChoices, MaxFields) }

\* the record sequences load_data hands back: none, one or two lines
FileDataInputs ==
    { <<>> } \cup { <<r>> : r \in RecordInputs }
             \cup { <<r, q>> : r \in RecordInputs, q \in {DocsData[1], ShortData[1]} }

InitRec ==
    /\ working_dir = W
    /\ callers = {}
    /\ allowed = [c \in Callers |-> {}]
    /\ budget = [c \in Callers |-> 0]
    /\ RunInit /\ DirIdle
    /\ recIn \in FileDataInputs
    /\ recBase \in {DocsDir, ShortDir}
    /\ recOut = <<>> /\ recCalls = <<>> /\ recStage = 0

\* "for each_line in file_data: self._resolve_image(input_dir, each_line)";
\* recCalls keeps, per line, the resolve_image_path calls made for it
ResolveImage ==
    /\ recStage = 0
    /\ recOut' = ResolvedLines(recBase, recIn)
    /\ recCalls' = [i \in 1..Len(recIn) |-> ResolveImageLoop(recBase, recIn[i]).calls]
    /\ recStage' = 1
    /\ UNCHANGED <<working_dir, runVars, dirVars, recIn, recBase>>

NextRec == ResolveImage

SpecRec == InitRec /\ [][NextRec]_vars

(* ------------------------------ properties ----------------------------- *)
\* the directory a call's output_dir argument names
Target(c) == _resolve_dir(working_dir, args[c].output_dir)

\* the persisted form of what exec_bulk returned to call c
PersistedForm(c) ==
    [i \in 1..Len(handed[c].returned) |->
        persist_multimedia_data(handed[c].returned[i], output_dir[c])]

AnyImage(recs) == \E i \in 1..Len(recs) : HasImage(recs[i])

\* C1: when run returns, the result's outputs are, record for record and in
\* order, the persisted records the call wrote to output.jsonl; no blob is
\* left in them
ReturnedOutputsAreWhatWasWritten ==
    \A c \in callers :
        pc[c] = "returned" =>
            /\ Len(batch_result[c].outputs) = Len(written[c])
            /\ \A i \in 1..Len(written[c]) : written[c][i] = JsonLine(batch_result[c].outputs[i])
            /\ ~AnyImage(batch_result[c].outputs)
            /\ OutputFile(output_dir[c]) \in touched[c]

ReturnedWithPersistedMedia ==
    \E c \in callers :
        /\ pc[c] = "returned"
        /\ Len(batch_result[c].outputs) = 2
        /\ AnyImage(handed[c].returned)

\* C2: a call that fails to load a source or to map raises that error, has
\* not invoked exec_bulk, has left its output directory as it was and has
\* no Batch Result; the mapper fails only once every source is loaded, and
\* a call that got past mapping had every source loaded and a valid mapping
LoadOrMappingFailureAborts ==
    \A c \in callers :
        /\ error[c] \in {"DataSource", "Mapping"} =>
              /\ pc[c] = "raised"
              /\ execCalls[c] = 0
              /\ touched[c] = {}
              /\ fs[Target(c)] = dirAtStart[c]
              /\ ~batch_result[c].exists
              /\ replaced[c] = 0
        /\ error[c] = "DataSource" =>
              ~load_data(_resolve_dir(working_dir, args[c].input_dirs[nextSrc[c]].dir)).ok
        /\ error[c] = "Mapping" =>
              /\ ~MappingValid(result[c], args[c].inputs_mapping)
              /\ Len(result[c]) = Len(args[c].input_dirs)
              /\ \A s \in 1..Len(args[c].input_dirs) :
                    load_data(_resolve_dir(working_dir, args[c].input_dirs[s].dir)).ok
        /\ (execCalls[c] > 0 \/ pc[c] \in {"resolve_out", "exec", "persist", "assign", "returned"}) =>
              /\ \A s \in 1..Len(args[c].input_dirs) :
                    load_data(_resolve_dir(working_dir, args[c].input_dirs[s].dir)).ok
              /\ Len(result[c]) = Len(args[c].input_dirs)
              /\ MappingValid(result[c], args[c].inputs_mapping)

SecondSourceFailsOverExistingFile ==
    \E c \in callers :
        /\ error[c] = "DataSource"
        /\ nextSrc[c] = 2
        /\ Len(result[c]) = 1
        /\ dirAtStart[c].exists
        /\ dirAtStart[c].lines # <<>>

\* C3: every media reference of a loaded record, whether it is a mapping
\* field or an element of a list field, is stored as
\* resolve_image_path(D, value), D being the source's resolved directory
LoadedMediaReferencesAreResolved ==
    \A c \in callers :
        \A s \in 1..Len(result[c]) :
            LET D == result[c][s].dir
                disk == load_data(D).records
                got == result[c][s].records
            IN  \A i \in 1..Len(got) : \A j \in 1..Len(got[i]) :
                    LET before == disk[i][j].val
                        after == got[i][j].val
                    IN  /\ (before.t = "Mapping" /\ before.media) =>
                               after = resolve_image_path(D, before)
                        /\ before.t = "Sequence" =>
                               \A k \in 1..Len(before.items) :
                                   (before.items[k].t = "Mapping" /\ before.items[k].media) =>
                                       after.items[k] = resolve_image_path(D, before.items[k])

\* C4: when a run has returned, output.jsonl of its directory holds exactly
\* the lines of that run's outputs in order, whatever the file held before
OutputFileIsReplaced ==
    \A c \in callers :
        pc[c] = "returned" =>
            /\ fs[output_dir[c]].exists
            /\ fs[output_dir[c]].lines = JsonLines(batch_result[c].outputs)
            /\ dirAtStart[c].lines = JsonLines(batch_result[c].outputs) =>
                  fs[output_dir[c]].lines = dirAtStart[c].lines

ShorterRunOverLongerFile ==
    \E c \in callers :
        /\ pc[c] = "returned"
        /\ runs[c] >= 2
        /\ Len(dirAtStart[c].lines) = 2
        /\ Len(fs[output_dir[c]].lines) = 1

\* C5: with two concurrent calls on disjoint output directories, a call that
\* has returned holds the persisted form of its own exec_bulk outputs and
\* its directory's output.jsonl holds the same; every file a call wrote is
\* in its own directory and no file was written by both
ConcurrentRunsDoNotInterfere ==
    /\ \A c \in callers :
          /\ pc[c] = "returned" =>
                /\ batch_result[c].outputs = PersistedForm(c)
                /\ fs[output_dir[c]].lines = JsonLines(batch_result[c].outputs)
          /\ \A f \in touched[c] : f[1] = Target(c)
          /\ pc[c] \in {"persist", "assign"} =>
                /\ Len(outputs[c]) <= Len(handed[c].returned)
                /\ \A i \in 1..Len(outputs[c]) : outputs[c][i] = PersistedForm(c)[i]
    /\ \A c, d \in callers : c # d => touched[c] \cap touched[d] = {}

BothReturnedDifferentOutputs ==
    /\ callers = {1, 2}
    /\ \A c \in callers : pc[c] = "returned" /\ batch_result[c].outputs # <<>>
    /\ batch_result[1].outputs # batch_result[2].outputs
    /\ Len(batch_result[1].outputs) = 2

\* the scalar a record's field holds
ScalarOf(rec, name) == ValueOf(rec, name).v

PersistenceOnlyAfterExecution ==
    \A c \in callers :
        /\ (touched[c] # {} \/ outputs[c] # <<>> \/ pc[c] \in {"persist", "assign", "returned"}) =>
              execCalls[c] = 1 /\ batch_result[c].exists
        /\ replaced[c] = (IF pc[c] = "returned" THEN 1 ELSE 0)
        /\ pc[c] # "returned" => batch_result[c].outputs = handed[c].returned
        /\ error[c] = "Execution" =>
              /\ pc[c] = "raised"
              /\ touched[c] = {}
              /\ fs[Target(c)] = dirAtStart[c]
              /\ ~batch_result[c].exists
        /\ error[c] = "Persistence" =>
              /\ pc[c] = "raised"
              /\ execCalls[c] = 1
              /\ replaced[c] = 0

PersistenceFailsAfterMediaWritten ==
    \E c \in callers :
        /\ error[c] = "Persistence"
        /\ \E f \in touched[c] : f[2] # OUTPUT_FILE_NAME
        /\ AnyImage(batch_result[c].outputs)

\* how many of the calls made for line i carry value v
CallsWith(i, v) == Cardinality({n \in 1..Len(recCalls[i]) : recCalls[i][n] = <<recBase, v>>})

\* how many times value v is due a call in line i: once per mapping field
\* holding it and once per list element holding it
DueCalls(i, v) ==
    Cardinality({j \in 1..Len(recIn[i]) : recIn[i][j].val.t = "Mapping" /\ recIn[i][j].val = v})
      + Cardinality(UNION { { <<j, k>> : k \in {n \in 1..Len(recIn[i][j].val.items) :
                                                  recIn[i][j].val.items[n] = v} } :
                            j \in {m \in 1..Len(recIn[i]) : recIn[i][m].val.t = "Sequence"} })

\* C9: _resolve_image keeps each record's field names and their order,
\* keeps scalar fields, replaces a mapping field by what the single
\* resolve_image_path call made for it returns, keeps a list field's length
\* and element order, and the source keeps its number of records
ResolveImageChangesOnlyMappings ==
    recStage = 1 =>
        /\ Len(recOut) = Len(recIn)
        /\ \A i \in 1..Len(recIn) :
              /\ Len(recOut[i]) = Len(recIn[i])
              /\ \A j \in 1..Len(recIn[i]) :
                    LET before == recIn[i][j].val
                        after == recOut[i][j].val
                    IN  /\ recOut[i][j].name = recIn[i][j].name
                        /\ before.t = "Scalar" => after = before
                        /\ before.t = "Mapping" =>
                              /\ after = resolve_image_path(recBase, before)
                              /\ CallsWith(i, before) = DueCalls(i, before)
                        /\ before.t = "Sequence" =>
                              /\ after.t = "Sequence"
                              /\ Len(after.items) = Len(before.items)
                              /\ \A k \in 1..Len(before.items) :
                                    after.items[k] \in
                                      {before.items[k], resolve_image_path(recBase, before.items[k])}
              /\ \A n \in 1..Len(recCalls[i]) : recCalls[i][n][1] = recBase

MappingAndListRecordResolved ==
    /\ recStage = 1
    /\ Len(recIn) = 2
    /\ Len(recIn[1]) = 2
    /\ recIn[1][1].val = MediaRef(StrPath(FALSE, <<"m.png">>))
    /\ recIn[1][2].val.t = "Sequence"
    /\ Len(recIn[1][2].val.items) = 2
    /\ recOut[1][1].val # recIn[1][1].val

\* C10: when exec_bulk returned fewer outputs than it was given inputs, run
\* returns and output.jsonl holds one line per returned output, line i
\* being the i-th returned output persisted, with no line added or dropped
FewerOutputsAreWrittenAsReturned ==
    \A c \in callers :
        (pc[c] = "returned" /\ Len(handed[c].returned) < Len(handed[c].exec)) =>
            /\ Len(fs[output_dir[c]].lines) = Len(handed[c].returned)
            /\ Len(batch_result[c].outputs) = Len(handed[c].returned)
            /\ \A i \in 1..Len(handed[c].returned) :
                  fs[output_dir[c]].lines[i]
                    = JsonLine(persist_multimedia_data(handed[c].returned[i], output_dir[c]))

SecondOutputOnFirstLine ==
    \E c \in callers :
        /\ pc[c] = "returned"
        /\ Len(handed[c].exec) = 2
        /\ Len(fs[output_dir[c]].lines) = 1
        /\ ScalarOf(handed[c].exec[1], "question") = 1
        /\ fs[output_dir[c]].lines[1][1] = <<"answer", Scalar(2)>>
====
